---- MODULE Spec2Model ----
(***************************************************************************)
(* Cycle-accurate model of litejpeg's run-length encoder core              *)
(* (litejpeg/core/rle/rlecore.py): the clocked datapath RLEDatapath and    *)
(* the RunLength wrapper with its write and read state machines.           *)
(*                                                                         *)
(* One step of the model is one rising clock edge.  The registers of both  *)
(* modules are variables; the values sampled on the input ports in the     *)
(* current cycle (sink.valid, sink.data, source.ready, pipe_ce) are        *)
(* variables too, so that every state shows the whole cycle.  pipe_ce is   *)
(* supplied by the pipeline framework outside this repository and is       *)
(* modelled as a free input.  accumulator_temp (rlecore.py:74) drives      *)
(* nothing and is left out.                                                *)
(***************************************************************************)
EXTENDS Integers, Sequences, FiniteSets, TLC

BLOCK_COUNT == 64
datapath_latency == 3

\* Bounds of the model.
MaxBlocks == 2
MaxStall == 3
NumStreams == 2

VARIABLES
    \* RunLength registers
    write_fsm, read_fsm, write_sel, read_sel, write_count, read_count,
    \* RLEDatapath registers
    accumulator, runlength, dovalid, dovalid_next, dovalid_next_next,
    zero_count, prev_dc_0, source_inter, source_reg,
    \* port values of the current cycle
    write_cnt, sink_valid, sink_data, source_ready, pipe_ce,
    \* producer: which coefficient stream is sent, how much of it was accepted,
    \* and how many cycles so far had valid, ready or the enable deasserted
    stream, in_idx, stalls,
    \* observers of the core and of the stand-alone datapath
    sched_hist, enc_hist

regvars == <<write_fsm, read_fsm, write_sel, read_sel, write_count, read_count,
             accumulator, runlength, dovalid, dovalid_next, dovalid_next_next,
             zero_count, prev_dc_0, source_inter, source_reg>>
portvars == <<write_cnt, sink_valid, sink_data, source_ready, pipe_ce>>
envvars == <<stream, in_idx, stalls>>
vars == <<regvars, portvars, envvars, sched_hist, enc_hist>>

----------------------------------------------------------------------------
\* Packed token word: data[0:12] amplitude, data[12:16] run length,
\* data[16] validity (rlecore.py:142-144).
Pack(acc, rl, dv) == (acc % 4096) + (rl % 16) * 4096 + (dv % 2) * 65536
Amplitude(w) == w % 4096
RunLen(w) == (w \div 4096) % 16
IsValid(w) == (w \div 65536) % 2

\* All registers of the core as one record.
Regs ==
    [write_fsm |-> write_fsm, read_fsm |-> read_fsm,
     write_sel |-> write_sel, read_sel |-> read_sel,
     write_count |-> write_count, read_count |-> read_count,
     accumulator |-> accumulator, runlength |-> runlength,
     dovalid |-> dovalid, dovalid_next |-> dovalid_next,
     dovalid_next_next |-> dovalid_next_next,
     zero_count |-> zero_count, prev_dc_0 |-> prev_dc_0,
     source_inter |-> source_inter, source_reg |-> source_reg]

ResetRegs_ReadSelZero ==
    [write_fsm |-> "INIT", read_fsm |-> "INIT",
     write_sel |-> 0, read_sel |-> 0,
     write_count |-> 0, read_count |-> 0,
     accumulator |-> 0, runlength |-> 0,
     dovalid |-> 0, dovalid_next |-> 0, dovalid_next_next |-> 0,
     zero_count |-> 0, prev_dc_0 |-> 0,
     source_inter |-> 0, source_reg |-> 0]

ResetRegs ==
    [write_fsm |-> "INIT", read_fsm |-> "INIT",
     write_sel |-> 0, read_sel |-> 1,
     write_count |-> 0, read_count |-> 0,
     accumulator |-> 0, runlength |-> 0,
     dovalid |-> 0, dovalid_next |-> 0, dovalid_next_next |-> 0,
     zero_count |-> 0, prev_dc_0 |-> 0,
     source_inter |-> 0, source_reg |-> 0]

----------------------------------------------------------------------------
\* RLEDatapath: one enabled clock edge with write_cnt = cnt, sink.data = data.

\* The run-length encoding proper (first sync block).
Encode_EobFirst(r, cnt, data) ==
    IF cnt = 0 THEN
        [r EXCEPT !.accumulator = (data - r.prev_dc_0) % 4096,
                  !.prev_dc_0 = data,
                  !.runlength = 0,
                  !.dovalid = 1]
    ELSE IF data = 0 THEN
        IF cnt = 63 THEN
            [r EXCEPT !.accumulator = 0,
                      !.runlength = 0,
                      !.dovalid = 1]
        ELSE IF r.zero_count = 15 THEN
            [r EXCEPT !.accumulator = 0,
                      !.runlength = 15,
                      !.zero_count = (r.zero_count + 1) % 16,
                      !.dovalid = 1]
        ELSE
            [r EXCEPT !.zero_count = (r.zero_count + 1) % 16,
                      !.dovalid = 0]
    ELSE
        [r EXCEPT !.accumulator = data,
                  !.runlength = r.zero_count,
                  !.zero_count = 0,
                  !.dovalid = 1]

Encode_KeepCount(r, cnt, data) ==
    IF cnt = 0 THEN
        [r EXCEPT !.accumulator = (data - r.prev_dc_0) % 4096,
                  !.prev_dc_0 = data,
                  !.runlength = 0,
                  !.dovalid = 1]
    ELSE IF data = 0 THEN
        IF r.zero_count = 15 THEN
            [r EXCEPT !.accumulator = 0,
                      !.runlength = 15,
                      !.zero_count = (r.zero_count + 1) % 16,
                      !.dovalid = 1]
        ELSE IF cnt = 63 THEN
            [r EXCEPT !.accumulator = 0,
                      !.runlength = 0,
                      !.dovalid = 1]
        ELSE
            [r EXCEPT !.zero_count = (r.zero_count + 1) % 16,
                      !.dovalid = 0]
    ELSE
        [r EXCEPT !.accumulator = data,
                  !.runlength = r.zero_count,
                  !.dovalid = 1]

Encode(r, cnt, data) ==
    IF cnt = 0 THEN
        [r EXCEPT !.accumulator = (data - r.prev_dc_0) % 4096,
                  !.prev_dc_0 = data,
                  !.runlength = 0,
                  !.dovalid = 1]
    ELSE IF data = 0 THEN
        IF r.zero_count = 15 THEN
            [r EXCEPT !.accumulator = 0,
                      !.runlength = 15,
                      !.zero_count = (r.zero_count + 1) % 16,
                      !.dovalid = 1]
        ELSE IF cnt = 63 THEN
            [r EXCEPT !.accumulator = 0,
                      !.runlength = 0,
                      !.dovalid = 1]
        ELSE
            [r EXCEPT !.zero_count = (r.zero_count + 1) % 16,
                      !.dovalid = 0]
    ELSE
        [r EXCEPT !.accumulator = data,
                  !.runlength = r.zero_count,
                  !.zero_count = 0,
                  !.dovalid = 1]

\* The validity delay line and the two output registers.
Datapath_ShortDelay(r, cnt, data) ==
    [Encode(r, cnt, data) EXCEPT
        !.dovalid_next = r.dovalid,
        !.dovalid_next_next = r.dovalid,
        !.source_inter = Pack(r.accumulator, r.runlength, r.dovalid),
        !.source_reg = r.source_inter]

Datapath(r, cnt, data) ==
    [Encode(r, cnt, data) EXCEPT
        !.dovalid_next = r.dovalid,
        !.dovalid_next_next = r.dovalid_next,
        !.source_inter = Pack(r.accumulator, r.runlength, r.dovalid),
        !.source_reg = r.source_inter]

----------------------------------------------------------------------------
\* RunLength: combinational signals of the current cycle.
\* sink.ready and source.valid are driven by the state machines only in
\* WRITE_INPUT and in READ_OUTPUT.  Their values in the INIT states are the
\* defaults of the PipelinedActor base class, which is not part of the
\* sources; they are taken from the specification, which has the core ready
\* only while writing a block and valid only while reading one.
sink_ready_idle(r) == FALSE
sink_ready(r) == IF r.write_fsm = "WRITE_INPUT" THEN TRUE ELSE sink_ready_idle(r)
write_clear(r) == r.write_fsm = "INIT"
write_swap(r, v) ==
    r.write_fsm = "WRITE_INPUT" /\ v /\ r.write_count = BLOCK_COUNT - 1
write_inc_free(r, v) ==
    r.write_fsm = "WRITE_INPUT" /\ r.write_count # BLOCK_COUNT - 1
write_inc(r, v) ==
    r.write_fsm = "WRITE_INPUT" /\ v /\ r.write_count # BLOCK_COUNT - 1

source_valid_idle(r) == FALSE
source_valid(r) == IF r.read_fsm = "READ_OUTPUT" THEN TRUE ELSE source_valid_idle(r)
source_last_early(r) == r.read_fsm = "READ_OUTPUT" /\ r.read_count = BLOCK_COUNT - 2
source_last(r) == r.read_fsm = "READ_OUTPUT" /\ r.read_count = BLOCK_COUNT - 1
read_clear(r) == r.read_fsm = "INIT"
read_swap_always(r) == r.read_fsm = "INIT"
read_swap(r) == r.read_fsm = "INIT" /\ r.read_sel = r.write_sel
read_inc(r, rdy) == r.read_fsm = "READ_OUTPUT" /\ rdy

\* source.data: the datapath's output word cut to 17 bits, gated by the
\* twice-delayed validity bit.
source_data(r) ==
    IF r.dovalid_next_next = 1 THEN r.source_reg % 131072 ELSE 0

\* RunLength: next values of its own registers.
WriteFsmNext_NoWait(r, v) ==
    IF r.write_fsm = "INIT"
    THEN "WRITE_INPUT"
    ELSE (IF v /\ r.write_count = BLOCK_COUNT - 1 THEN "INIT" ELSE "WRITE_INPUT")

WriteFsmNext_WaitEqual(r, v) ==
    IF r.write_fsm = "INIT"
    THEN (IF r.write_sel = r.read_sel THEN "WRITE_INPUT" ELSE "INIT")
    ELSE (IF v /\ r.write_count = BLOCK_COUNT - 1 THEN "INIT" ELSE "WRITE_INPUT")

WriteFsmNext(r, v) ==
    IF r.write_fsm = "INIT"
    THEN (IF r.write_sel # r.read_sel THEN "WRITE_INPUT" ELSE "INIT")
    ELSE (IF v /\ r.write_count = BLOCK_COUNT - 1 THEN "INIT" ELSE "WRITE_INPUT")

ReadFsmNext(r, rdy) ==
    IF r.read_fsm = "INIT"
    THEN (IF r.read_sel = r.write_sel THEN "READ_OUTPUT" ELSE "INIT")
    ELSE (IF rdy /\ source_last(r) THEN "INIT" ELSE "READ_OUTPUT")

WriteSelNext_Stuck(r, v) == r.write_sel
WriteSelNext(r, v) == IF write_swap(r, v) THEN 1 - r.write_sel ELSE r.write_sel
ReadSelNext_AlsoAtEnd(r) ==
    IF read_swap(r) \/ source_last(r) THEN 1 - r.read_sel ELSE r.read_sel
ReadSelNext(r) == IF read_swap(r) THEN 1 - r.read_sel ELSE r.read_sel

WriteCountNext(r, v) ==
    IF write_clear(r) THEN 0
    ELSE IF write_inc(r, v) THEN (r.write_count + 1) % 64
    ELSE r.write_count

ReadCountNext(r, rdy) ==
    IF read_clear(r) THEN 0
    ELSE IF read_inc(r, rdy) THEN (r.read_count + 1) % 64
    ELSE r.read_count

\* One clock edge of the whole core.  Only the datapath is clocked through
\* the enable (CEInserter, datapath.ce = pipe_ce); its write_cnt and
\* sink.data inputs are wired to write_count and sink.data.
RunLength(r, v, d, rdy, ce) ==
    [(IF ce THEN Datapath(r, r.write_count, d) ELSE r) EXCEPT
        !.write_fsm = WriteFsmNext(r, v),
        !.read_fsm = ReadFsmNext(r, rdy),
        !.write_sel = WriteSelNext(r, v),
        !.read_sel = ReadSelNext(r),
        !.write_count = WriteCountNext(r, v),
        !.read_count = ReadCountNext(r, rdy)]

SetRegs(n) ==
    /\ write_fsm' = n.write_fsm
    /\ read_fsm' = n.read_fsm
    /\ write_sel' = n.write_sel
    /\ read_sel' = n.read_sel
    /\ write_count' = n.write_count
    /\ read_count' = n.read_count
    /\ accumulator' = n.accumulator
    /\ runlength' = n.runlength
    /\ dovalid' = n.dovalid
    /\ dovalid_next' = n.dovalid_next
    /\ dovalid_next_next' = n.dovalid_next_next
    /\ zero_count' = n.zero_count
    /\ prev_dc_0' = n.prev_dc_0
    /\ source_inter' = n.source_inter
    /\ source_reg' = n.source_reg

----------------------------------------------------------------------------
\* Coefficient streams sent by the producer.  A stream is a sequence of
\* 64-coefficient blocks taken in rotation from a small catalogue.
BlkFlat == [p \in 0..63 |-> IF p = 0 THEN 10 ELSE 0]
BlkRun16 == [p \in 0..63 |-> IF p = 0 THEN 7 ELSE IF p = 17 THEN 9 ELSE 0]
BlkC5 == [p \in 0..63 |-> IF p = 0 THEN 5 ELSE IF p = 4 THEN 3 ELSE 0]
Catalogue == <<BlkFlat, BlkRun16, BlkC5>>

StreamLen == BLOCK_COUNT * MaxBlocks
Coef(sid, i) == Catalogue[((sid - 1 + (i \div 64)) % 3) + 1][i % 64]

\* Values driven on the stand-alone datapath's sink.data.
DCVals == {0, 5}
ACVals == {0, 3}

----------------------------------------------------------------------------
\* Observers.  They record what happened, and feed nothing back.

Min(a, b) == IF a < b THEN a ELSE b
\* Block counters of the observers are kept modulo BlkMod.
BlkMod == MaxBlocks + 2
Tag(blk, pos) == 1 + blk * 64 + pos
TagBlk(t) == (t - 1) \div 64
TagPos(t) == (t - 1) % 64

\* sched_hist:
\*   wr_blk, rd_blk  number of write_sel / read_sel toggles, modulo BlkMod
\*   in_blk, in_pos  block (modulo BlkMod) and position, by count, of the next
\*                   coefficient the write side will accept
\*   out_cnt         output cycles accepted since read_fsm last entered READ_OUTPUT
\*   last_cnt        how many of them had source.last asserted
\*   out_stalled     source.ready was low in some cycle of the current output block
\*   ce_alone        pipe_ce was low in some cycle in which the consumer was
\*                   not stalling an output word
\*   tags            for each of the three datapath stages, Tag(block, position)
\*                   of the accepted coefficient its contents were computed
\*                   from, or 0 when no coefficient was accepted in that cycle
\*   dc_cur, dc_prev raw DC accepted at position 0 of the current block and
\*                   of the block before it (0 before any)
SchedHist0 ==
    [wr_blk |-> 0, rd_blk |-> 0, in_blk |-> 0, in_pos |-> 0,
     out_cnt |-> 0, last_cnt |-> 0, out_stalled |-> FALSE, ce_alone |-> FALSE,
     tags |-> <<0, 0, 0>>,
     dc_cur |-> 0, dc_prev |-> 0]

SchedHistNext(h, r, v, d, rdy, ce) ==
    LET accepted == sink_ready(r) /\ v
        emitted == source_valid(r) /\ rdy
    IN [wr_blk |-> IF write_swap(r, v) THEN (h.wr_blk + 1) % BlkMod ELSE h.wr_blk,
        rd_blk |-> IF read_swap(r) THEN (h.rd_blk + 1) % BlkMod ELSE h.rd_blk,
        in_blk |-> IF accepted /\ h.in_pos = 63 THEN (h.in_blk + 1) % BlkMod ELSE h.in_blk,
        in_pos |-> IF accepted THEN (h.in_pos + 1) % 64 ELSE h.in_pos,
        out_cnt |-> IF read_swap(r) THEN 0
                    ELSE IF emitted THEN Min(h.out_cnt + 1, BLOCK_COUNT + 1)
                    ELSE h.out_cnt,
        last_cnt |-> IF read_swap(r) THEN 0
                     ELSE IF emitted /\ source_last(r) THEN Min(h.last_cnt + 1, 2)
                     ELSE h.last_cnt,
        out_stalled |-> IF read_swap(r) THEN FALSE
                        ELSE h.out_stalled \/ (source_valid(r) /\ ~rdy),
        ce_alone |-> h.ce_alone \/ (~ce /\ ~(source_valid(r) /\ ~rdy)),
        tags |-> IF ce
                 THEN <<IF accepted THEN Tag(h.in_blk, h.in_pos) ELSE 0,
                        h.tags[1], h.tags[2]>>
                 ELSE h.tags,
        dc_cur |-> IF accepted /\ h.in_pos = 0 THEN d ELSE h.dc_cur,
        dc_prev |-> IF accepted /\ h.in_pos = 0 THEN h.dc_cur ELSE h.dc_prev]

\* enc_hist (stand-alone datapath):
\*   ins       <<write_cnt, sink.data>> of the last three enabled cycles
\*   toks      packed (accumulator, runlength, dovalid) after each of them
\*   last_pos, last_data  position and value of the last coefficient processed
\*   zrun      length of the run of zero AC coefficients ending at the last
\*             coefficient, or just before it when it is a nonzero AC
\*   zovf      overflow tokens (0, 15, valid) emitted for the zeros of that run
\*   run_ok    every zero of that run got an overflow token if it was a 16th
\*             zero of the run and an invalid token otherwise
\*   eob_cnt   tokens (0, 0, valid) emitted at AC positions of the current block
\*   c5_match  the current block started with prev_dc_0 = 0 and zero_count = 0
\*             and its coefficients so far are those of BlkC5
EncHist0 ==
    [ins |-> <<<<-1, 0>>, <<-1, 0>>, <<-1, 0>>>>, toks |-> <<0, 0, 0>>,
     last_pos |-> -1, last_data |-> 0,
     zrun |-> 0, zovf |-> 0, run_ok |-> TRUE, eob_cnt |-> 0, c5_match |-> FALSE]

EncHistNext(h, r, n, cnt, data) ==
    LET tok == Pack(n.accumulator, n.runlength, n.dovalid)
        inrun == h.last_pos >= 1 /\ h.last_data = 0
        zr == IF cnt = 0 THEN 0
              ELSE IF data = 0 THEN (IF inrun THEN h.zrun + 1 ELSE 1)
              ELSE (IF inrun THEN h.zrun ELSE 0)
        ovf == n.dovalid = 1 /\ n.accumulator = 0 /\ n.runlength = 15
        eob == n.dovalid = 1 /\ n.accumulator = 0 /\ n.runlength = 0
    IN [ins |-> <<<<cnt, data>>, h.ins[1], h.ins[2]>>,
        toks |-> <<tok, h.toks[1], h.toks[2]>>,
        last_pos |-> cnt,
        last_data |-> data,
        zrun |-> zr,
        zovf |-> IF cnt = 0 THEN 0
                 ELSE IF data = 0
                      THEN (IF inrun THEN h.zovf ELSE 0) + (IF ovf THEN 1 ELSE 0)
                 ELSE (IF inrun THEN h.zovf ELSE 0),
        run_ok |-> IF cnt = 0 THEN TRUE
                   ELSE IF data = 0
                        THEN (inrun => h.run_ok)
                             /\ (IF zr % 16 = 0 THEN ovf ELSE n.dovalid = 0)
                   ELSE (inrun => h.run_ok),
        eob_cnt |-> IF cnt = 0 THEN 0
                    ELSE Min(h.eob_cnt + (IF eob THEN 1 ELSE 0), 2),
        c5_match |-> IF cnt = 0
                     THEN r.prev_dc_0 = 0 /\ r.zero_count = 0 /\ data = BlkC5[0]
                     ELSE h.c5_match /\ data = BlkC5[cnt]]

----------------------------------------------------------------------------
\* The core with its producer and consumer.

\* The inputs of the next cycle.  The producer keeps valid and data until the
\* coefficient is accepted; while it is not valid the bus carries 0 or the
\* coefficient to come.  At most MaxStall cycles have an input deasserted.
EnvNext(accepted) ==
    /\ stream' = stream
    /\ in_idx' = IF accepted THEN in_idx + 1 ELSE in_idx
    /\ \E v \in BOOLEAN, rdy \in BOOLEAN, ce \in BOOLEAN :
          LET more == in_idx' < StreamLen
              stall == (more /\ ~v) \/ ~rdy \/ ~ce
              nxt == IF more THEN Coef(stream, in_idx') ELSE 0
          IN /\ ~more => ~v
             /\ (sink_valid /\ ~accepted) => v
             /\ stalls' = stalls + (IF stall THEN 1 ELSE 0)
             /\ stalls' <= MaxStall
             /\ sink_valid' = v
             /\ sink_data' \in (IF v THEN {nxt} ELSE {0, nxt})
             /\ source_ready' = rdy
             /\ pipe_ce' = ce

InitRegs ==
    /\ write_fsm = ResetRegs.write_fsm
    /\ read_fsm = ResetRegs.read_fsm
    /\ write_sel = ResetRegs.write_sel
    /\ read_sel = ResetRegs.read_sel
    /\ write_count = ResetRegs.write_count
    /\ read_count = ResetRegs.read_count
    /\ accumulator = ResetRegs.accumulator
    /\ runlength = ResetRegs.runlength
    /\ dovalid = ResetRegs.dovalid
    /\ dovalid_next = ResetRegs.dovalid_next
    /\ dovalid_next_next = ResetRegs.dovalid_next_next
    /\ zero_count = ResetRegs.zero_count
    /\ prev_dc_0 = ResetRegs.prev_dc_0
    /\ source_inter = ResetRegs.source_inter
    /\ source_reg = ResetRegs.source_reg

Init ==
    /\ InitRegs
    /\ write_cnt = 0
    /\ stream \in 1..NumStreams
    /\ in_idx = 0
    /\ sink_valid \in BOOLEAN
    /\ sink_data \in (IF sink_valid THEN {Coef(stream, 0)} ELSE {0, Coef(stream, 0)})
    /\ source_ready \in BOOLEAN
    /\ pipe_ce \in BOOLEAN
    /\ stalls = IF sink_valid /\ source_ready /\ pipe_ce THEN 0 ELSE 1
    /\ stalls <= MaxStall
    /\ sched_hist = SchedHist0
    /\ enc_hist = EncHist0

\* One clock edge of the core.
Clock ==
    LET r == Regs
        n == RunLength(r, sink_valid, sink_data, source_ready, pipe_ce)
    IN /\ SetRegs(n)
       /\ write_cnt' = n.write_count
       /\ sched_hist' = SchedHistNext(sched_hist, r, sink_valid, sink_data,
                                      source_ready, pipe_ce)
       /\ enc_hist' = enc_hist
       /\ EnvNext(sink_ready(r) /\ sink_valid)

Next == Clock

Spec == Init /\ [][Next]_vars

----------------------------------------------------------------------------
\* The two state machines under every pattern of producer and consumer
\* stalls, for an unbounded number of blocks.  The enable is held low, so the
\* datapath stays parked and only the scheduler, which the enable does not
\* reach, moves.
InitCtl ==
    /\ InitRegs
    /\ write_cnt = 0
    /\ stream = 0
    /\ in_idx = 0
    /\ stalls = 0
    /\ sink_valid \in BOOLEAN
    /\ sink_data = 0
    /\ source_ready \in BOOLEAN
    /\ pipe_ce = FALSE
    /\ sched_hist = SchedHist0
    /\ enc_hist = EncHist0

ClockCtl ==
    LET r == Regs
        n == RunLength(r, sink_valid, sink_data, source_ready, pipe_ce)
    IN /\ SetRegs(n)
       /\ write_cnt' = n.write_count
       /\ sched_hist' = SchedHistNext(sched_hist, r, sink_valid, sink_data,
                                      source_ready, pipe_ce)
       /\ UNCHANGED <<enc_hist, stream, in_idx, stalls, sink_data, pipe_ce>>
       /\ sink_valid' \in (IF sink_valid /\ ~sink_ready(r) THEN {TRUE} ELSE BOOLEAN)
       /\ source_ready' \in BOOLEAN

NextCtl == ClockCtl

SpecCtl == InitCtl /\ [][NextCtl]_vars

----------------------------------------------------------------------------
\* The datapath on its own: write_cnt runs through 0..63 again and again,
\* sink.data is free, and the enable may drop in any cycle (the inputs are
\* then held for the next cycle).
InitEnc ==
    /\ InitRegs
    /\ write_cnt = 0
    /\ stream = 0
    /\ in_idx = 0
    /\ stalls = 0
    /\ sink_valid = TRUE
    /\ sink_data \in DCVals
    /\ source_ready = TRUE
    /\ pipe_ce \in BOOLEAN
    /\ sched_hist = SchedHist0
    /\ enc_hist = EncHist0

EncStep ==
    LET r == Regs
        n == IF pipe_ce THEN Datapath(r, write_cnt, sink_data) ELSE r
    IN /\ SetRegs(n)
       /\ enc_hist' = IF pipe_ce
                      THEN EncHistNext(enc_hist, r, n, write_cnt, sink_data)
                      ELSE enc_hist
       /\ write_cnt' = IF pipe_ce THEN (write_cnt + 1) % 64 ELSE write_cnt
       /\ sink_data' \in (IF ~pipe_ce THEN {sink_data}
                          ELSE IF write_cnt' = 0 THEN DCVals ELSE ACVals)
       /\ pipe_ce' \in BOOLEAN
       /\ UNCHANGED <<stream, in_idx, stalls, sink_valid, source_ready, sched_hist>>

NextEnc == EncStep

SpecEnc == InitEnc /\ [][NextEnc]_vars

----------------------------------------------------------------------------
\* C1: every output block has exactly 64 accepted output cycles, whatever the
\* consumer's stalls, and source.last is asserted on the 64th of them
\* (read_count = 63) and on no other: while the read side is in READ_OUTPUT
\* fewer than 64 cycles were accepted, none of them with last, and last is
\* up exactly when 63 were accepted; back in INIT the block had 64 accepted
\* cycles, one of them with last.
C1_SixtyFourCyclesOneLast ==
    LET r == Regs
        h == sched_hist
    IN /\ r.read_fsm = "READ_OUTPUT" =>
            /\ h.out_cnt < BLOCK_COUNT
            /\ h.last_cnt = 0
            /\ source_last(r) <=> h.out_cnt = BLOCK_COUNT - 1
            /\ source_last(r) => r.read_count = 63
       /\ r.read_fsm = "INIT" =>
            \/ h.out_cnt = 0 /\ h.last_cnt = 0
            \/ h.out_cnt = BLOCK_COUNT /\ h.last_cnt = 1

\* An output block that was stalled by the consumer has just been completed.
C1_Witness ==
    /\ read_fsm = "INIT"
    /\ sched_hist.out_cnt = BLOCK_COUNT
    /\ sched_hist.last_cnt = 1
    /\ sched_hist.out_stalled

\* C7, as claimed: the write side is never accepting block n+1 while the read
\* side is still in READ_OUTPUT emitting block n.
C7_NoOverlapAsClaimed ==
    ~ (/\ write_fsm = "WRITE_INPUT"
       /\ read_fsm = "READ_OUTPUT"
       /\ sched_hist.wr_blk = sched_hist.rd_blk)

\* C7, amended: the write side is in WRITE_INPUT for block n+1 only once the
\* read side has started the output of block n (every write_sel toggle has
\* been answered by a read_sel toggle); it may then be accepting block n+1
\* while the read side is still emitting block n.
C7_WriteAfterReadStarted ==
    write_fsm = "WRITE_INPUT" => sched_hist.wr_blk = sched_hist.rd_blk

\* Block 2 is being accepted while block 1 is still being emitted.
C7_Witness ==
    /\ write_fsm = "WRITE_INPUT"
    /\ read_fsm = "READ_OUTPUT"
    /\ sched_hist.wr_blk = 1
    /\ sched_hist.rd_blk = 1
    /\ write_count > 0
    /\ read_count > 0

----------------------------------------------------------------------------
\* The token held by the first datapath stage, and what a claim expects of it:
\* a valid token is compared field by field, a filler only by its validity.
TokenIs(exp) ==
    IF exp[3] = 1
    THEN <<accumulator, runlength, dovalid>> = exp
    ELSE dovalid = 0

\* C3, as claimed: a run of L zero AC coefficients followed by a nonzero AC
\* value v gives floor(L/16) overflow tokens, one on every 16th zero of the
\* run and fillers on the other zeros, and then the token (v, L mod 16, valid).
C3_RunThenNonzeroAsClaimed ==
    LET h == enc_hist
    IN (h.last_pos >= 1 /\ h.last_data # 0) =>
          /\ h.run_ok
          /\ h.zovf = h.zrun \div 16
          /\ TokenIs(<<h.last_data, h.zrun % 16, 1>>)

\* C4, as claimed: a block whose 63 AC coefficients are all zero has exactly
\* one end-of-block token (0, 0, valid), the token of position 63.
C4_AllZeroBlockAsClaimed ==
    LET h == enc_hist
    IN (h.last_pos = 63 /\ h.last_data = 0 /\ h.zrun = 63) =>
          /\ h.eob_cnt = 1
          /\ TokenIs(<<0, 0, 1>>)

\* C5, as claimed: the tokens of the block [5, 0, 0, 0, 3, 0 x 59] encoded
\* from prev_dc_0 = 0 and zero_count = 0 are (5, 0, valid) at position 0,
\* (3, 3, valid) at position 4, (0, 0, valid) at position 63 and fillers at
\* every other position.
C5ClaimedToken(p) ==
    IF p = 0 THEN <<5, 0, 1>>
    ELSE IF p = 4 THEN <<3, 3, 1>>
    ELSE IF p = 63 THEN <<0, 0, 1>>
    ELSE <<0, 0, 0>>

C5_ScenarioAsClaimed ==
    enc_hist.c5_match => TokenIs(C5ClaimedToken(enc_hist.last_pos))

\* C5, amended: as claimed, except that positions 20, 36 and 52 (the 16th,
\* 32nd and 48th zero after position 4) carry the overflow token
\* (0, 15, valid) instead of a filler.
C5AmendedToken(p) ==
    IF p \in {20, 36, 52} THEN <<0, 15, 1>> ELSE C5ClaimedToken(p)

C5_ScenarioWithOverflow ==
    enc_hist.c5_match => TokenIs(C5AmendedToken(enc_hist.last_pos))

\* The whole scenario block has been encoded.
C5_Witness ==
    /\ enc_hist.c5_match
    /\ enc_hist.last_pos = 63
    /\ <<accumulator, runlength, dovalid>> = <<0, 0, 1>>
    /\ zero_count = 10

\* C10: the datapath has a latency of exactly three enabled cycles.  The
\* word in the output register is the token the first stage held after the
\* enabled cycle three enabled cycles back, it fits the position and
\* coefficient presented in that cycle, and the twice-delayed validity bit
\* equals the validity bit packed in that word.
C10_LatencyThree ==
    LET h == enc_hist
        in == h.ins[datapath_latency]
        w == source_reg
    IN /\ w = h.toks[datapath_latency]
       /\ dovalid_next_next = IsValid(w)
       /\ source_data(Regs) = (IF IsValid(w) = 1 THEN w ELSE 0)
       /\ in[1] = 0 => IsValid(w) = 1 /\ RunLen(w) = 0
       /\ (in[1] >= 1 /\ in[2] # 0) => IsValid(w) = 1 /\ Amplitude(w) = in[2]
       /\ (in[1] >= 1 /\ in[2] = 0 /\ IsValid(w) = 1) =>
              Amplitude(w) = 0 /\ RunLen(w) \in {0, 15}
       /\ in[1] = -1 => w = 0

\* The token of a nonzero AC coefficient has reached the output register
\* while the enable is low.
C10_Witness ==
    /\ enc_hist.ins[datapath_latency] = <<4, 3>>
    /\ source_reg = Pack(3, 3, 1)
    /\ dovalid_next_next = 1
    /\ ~pipe_ce
    /\ enc_hist.ins[1] = <<6, 0>>

----------------------------------------------------------------------------
\* C2, as claimed: the token computed for the coefficient accepted at
\* position 0 of a block is (current DC - previous DC, 0, valid), the previous
\* DC being 0 for the first block and else the raw DC accepted at position 0
\* of the block before.
C2_DcDeltaAsClaimed ==
    LET h == sched_hist
        t == h.tags[1]
    IN (t # 0 /\ TagPos(t) = 0 /\ TagBlk(t) = h.in_blk /\ h.in_pos >= 1) =>
          TokenIs(<<(h.dc_cur - h.dc_prev) % 4096, 0, 1>>)

\* C6, as claimed: with the producer always valid, the consumer always ready
\* and the enable always high, the word presented on output cycle k of output
\* block n is the token computed for position k of input block n.
C6_AlignedAsClaimed ==
    LET h == sched_hist
    IN (stalls = 0 /\ source_valid(Regs)) =>
          h.tags[datapath_latency] = Tag((h.rd_blk - 1) % BlkMod, h.out_cnt)

\* The words the core hands over when nothing ever stalls: the core is run
\* from reset on stream sid with valid, ready and the enable always high.
RefCycles == (MaxBlocks + 1) * (BLOCK_COUNT + 4)

RefStep(st, sid) ==
    LET v == st.idx < StreamLen
        d == IF v THEN Coef(sid, st.idx) ELSE 0
    IN [r |-> RunLength(st.r, v, d, TRUE, TRUE),
        idx |-> IF sink_ready(st.r) /\ v THEN st.idx + 1 ELSE st.idx,
        out |-> IF source_valid(st.r)
                THEN Append(st.out, source_data(st.r))
                ELSE st.out]

\* n cycles from st.  (The test of st.idx, never negative, only makes the
\* evaluation of st happen before the cycles that follow it.)
RECURSIVE RefRun(_, _, _)
RefRun(st, sid, n) ==
    IF n = 0 \/ st.idx < 0 THEN st
    ELSE IF n = 1 THEN RefStep(st, sid)
    ELSE RefRun(RefRun(st, sid, n \div 2), sid, n - (n \div 2))

RefOut ==
    [sid \in 1..NumStreams |->
        RefRun([r |-> ResetRegs, idx |-> 0, out |-> <<>>], sid, RefCycles).out]

\* C8, as claimed: whatever the stalls of producer and consumer, each accepted
\* output word is the word accepted at the same place of the stall-free run.
\* (The enable is allowed to drop, but only in cycles in which the consumer
\* stalls an output word.)
C8_StallsLoseNothingAsClaimed ==
    LET r == Regs
        h == sched_hist
        k == ((h.rd_blk - 1) % BlkMod) * BLOCK_COUNT + h.out_cnt + 1
    IN (~h.ce_alone /\ source_valid(r) /\ source_ready) =>
          /\ k <= Len(RefOut[stream])
          /\ source_data(r) = RefOut[stream][k]

\* C9, as claimed: a clock edge with the enable low changes no register.
C9_EnableGatesAllAsClaimed ==
    [][~pipe_ce => UNCHANGED regvars]_vars

----------------------------------------------------------------------------
\* C11, as claimed: prev_dc_0 changes only in a cycle in which the write side
\* is in WRITE_INPUT and accepts the coefficient of position 0, and then
\* becomes that coefficient; zero_count changes only in a cycle in which an
\* AC coefficient is accepted.  In INIT, and while the producer is not valid,
\* both are unchanged.
C11_EncoderStateFrameAsClaimed ==
    [][LET accepted == sink_ready(Regs) /\ sink_valid
       IN /\ prev_dc_0' # prev_dc_0 =>
                accepted /\ write_count = 0 /\ prev_dc_0' = sink_data
          /\ zero_count' # zero_count => accepted /\ write_count # 0]_vars

\* C12, as claimed: once position 0 has been processed zero_count is 0.
C12_ZeroRunResetAtDcAsClaimed ==
    enc_hist.last_pos = 0 => zero_count = 0

\* C13, as claimed: whenever the write side is in INIT, write_count is 0.
C13_CountZeroInInitAsClaimed ==
    write_fsm = "INIT" => write_count = 0

----------------------------------------------------------------------------
\* C14: per block the write side accepts exactly 64 coefficients.  In
\* WRITE_INPUT write_count is the number of coefficients of the block accepted
\* so far; it keeps its value while the producer is not valid and advances by
\* one when a coefficient of position 0..62 is accepted; write_sel toggles in
\* exactly the cycle in which position 63 is accepted, and the write side
\* then returns to INIT.  In INIT nothing is consumed: the counter is cleared
\* and write_sel keeps its value whatever the producer does.  sink.ready is
\* up exactly in WRITE_INPUT, so that a handshake (ready and valid) happens in
\* exactly the cycles in which the write side advances its position or
\* completes the block.  (That sink.ready is low in INIT rests on
\* sink_ready_idle.)
C14_SixtyFourAccepted ==
    [][LET r == Regs
           toggled == write_sel' # write_sel
           advanced == write_count' = write_count + 1
       IN /\ write_fsm = "WRITE_INPUT" => write_count = sched_hist.in_pos
          /\ (write_fsm = "WRITE_INPUT" /\ ~sink_valid) =>
                write_count' = write_count /\ write_fsm' = "WRITE_INPUT"
          /\ (write_fsm = "WRITE_INPUT" /\ sink_valid /\ write_count < 63) =>
                advanced /\ write_fsm' = "WRITE_INPUT"
          /\ toggled <=> (write_fsm = "WRITE_INPUT" /\ sink_valid /\ write_count = 63)
          /\ toggled => (write_fsm' = "INIT" /\ sched_hist.in_pos = 63
                         /\ sched_hist'.in_pos = 0)
          /\ write_fsm = "INIT" => (write_count' = 0 /\ ~toggled)
          /\ sink_ready(r) <=> write_fsm = "WRITE_INPUT"
          /\ (sink_ready(r) /\ sink_valid) <=> (advanced \/ toggled)]_vars

\* The second block has just been completed: 128 coefficients were accepted
\* and write_sel has toggled twice.
C14_Witness ==
    /\ write_fsm = "INIT"
    /\ write_count = 63
    /\ write_sel = 0
    /\ sched_hist.wr_blk = 2
    /\ sched_hist.in_blk = 2
    /\ sched_hist.in_pos = 0

\* C15: in INIT the read side holds read_count at 0; it leaves INIT for
\* READ_OUTPUT exactly when read_sel = write_sel and toggles read_sel in that
\* step, and at no other time (not when the 64th output cycle is accepted).
C15_ReadStartTogglesSlot ==
    [][LET toggled == read_sel' # read_sel
       IN /\ read_fsm = "INIT" => read_count = 0
          /\ read_fsm = "INIT" =>
                (read_fsm' = "READ_OUTPUT" <=> read_sel = write_sel)
          /\ toggled <=> (read_fsm = "INIT" /\ read_sel = write_sel)
          /\ (source_last(Regs) /\ source_ready) =>
                (read_fsm' = "INIT" /\ read_count' = 0 /\ ~toggled)]_vars

\* The 64th output cycle of the first output block has just been accepted:
\* the read side is back in INIT and read_sel still has the value it took
\* when the block was started.
C15_Witness ==
    /\ read_fsm = "INIT"
    /\ read_count = 0
    /\ read_sel = 0
    /\ sched_hist.rd_blk = 1
    /\ sched_hist.out_cnt = BLOCK_COUNT

----------------------------------------------------------------------------
\* C16: overflow takes precedence over end-of-block, and the counter wraps
\* from 15 to 0.  A zero AC coefficient processed with zero_count = 15, at
\* any position 1..63, gives the overflow token (0, 15, valid) and leaves
\* zero_count at 0; a zero at position 63 with zero_count < 15 gives the
\* end-of-block token (0, 0, valid) and leaves zero_count as it was; a zero
\* gets the end-of-block token in no other case.
C16_OverflowBeforeEob ==
    [][LET zeroAC == pipe_ce /\ write_cnt >= 1 /\ sink_data = 0
           tok == <<accumulator', runlength', dovalid'>>
       IN /\ (zeroAC /\ zero_count = 15) =>
                tok = <<0, 15, 1>> /\ zero_count' = 0
          /\ (zeroAC /\ zero_count < 15 /\ write_cnt = 63) =>
                tok = <<0, 0, 1>> /\ zero_count' = zero_count
          /\ (zeroAC /\ tok = <<0, 0, 1>>) =>
                write_cnt = 63 /\ zero_count < 15]_vars

\* A zero at position 63 arrived with zero_count = 15 and got the overflow
\* token; the counter has wrapped to 0.
C16_Witness ==
    /\ enc_hist.last_pos = 63
    /\ enc_hist.last_data = 0
    /\ <<accumulator, runlength, dovalid>> = <<0, 15, 1>>
    /\ zero_count = 0
    /\ enc_hist.eob_cnt = 0

----------------------------------------------------------------------------
\* The scheduler with a clock that never stops, without its observers.
ClockLive ==
    LET r == Regs
        n == RunLength(r, sink_valid, sink_data, source_ready, pipe_ce)
    IN /\ SetRegs(n)
       /\ write_cnt' = n.write_count
       /\ UNCHANGED <<sched_hist, enc_hist, stream, in_idx, stalls, sink_data, pipe_ce>>
       /\ sink_valid' \in (IF sink_valid /\ ~sink_ready(r) THEN {TRUE} ELSE BOOLEAN)
       /\ source_ready' \in BOOLEAN

NextLive == ClockLive

SpecLive == InitCtl /\ [][NextLive]_vars /\ WF_vars(NextLive)

\* C17: if the producer is valid infinitely often and the consumer is ready
\* infinitely often, then write_sel and read_sel each toggle infinitely often,
\* and every completely written block is eventually followed by the accepted
\* 64th cycle, with source.last, of its own output block.  (The block written
\* while write_sel = b is the one emitted while read_sel = b.)
C17_Progress ==
    ([]<>sink_valid /\ []<>source_ready) =>
        /\ []<>(write_sel = 0) /\ []<>(write_sel = 1)
        /\ []<>(read_sel = 0) /\ []<>(read_sel = 1)
        /\ \A b \in {0, 1} :
              (write_swap(Regs, sink_valid) /\ write_sel = b)
                 ~> (read_sel = b /\ source_last(Regs) /\ source_ready)

\* The 64th cycle of the second output block is being accepted while the
\* write side, having written a third block, waits in INIT.
C17_Witness ==
    /\ read_fsm = "READ_OUTPUT"
    /\ read_count = BLOCK_COUNT - 1
    /\ source_ready
    /\ read_sel = 1
    /\ write_fsm = "INIT"
    /\ write_sel = 1

----------------------------------------------------------------------------
\* C18: while the write side is in WRITE_INPUT the two selectors differ, and
\* write_sel and read_sel are never toggled in the same cycle.
C18_SelectorsDifferWhileWriting ==
    LET r == Regs
    IN /\ write_fsm = "WRITE_INPUT" => write_sel # read_sel
       /\ ~(write_swap(r, sink_valid) /\ read_swap(r))

\* Position 63 of the second block is being accepted, write_sel is about to
\* toggle, while the read side is in the middle of the first output block.
C18_Witness ==
    /\ write_fsm = "WRITE_INPUT"
    /\ write_count = BLOCK_COUNT - 1
    /\ sink_valid
    /\ read_fsm = "READ_OUTPUT"
    /\ sched_hist.wr_blk = 1
    /\ sched_hist.rd_blk = 1
    /\ write_sel = 1
    /\ read_sel = 0

\* C19: the number of blocks completely written minus the number of output
\* blocks started is 0 or 1, and it is 1 exactly when write_sel = read_sel.
\* (The observers count modulo BlkMod >= 3, and both counts move by single
\* steps, so a difference of 2 cannot hide.)
C19_AtMostOneBlockAhead ==
    LET diff == (sched_hist.wr_blk - sched_hist.rd_blk) % BlkMod
    IN /\ diff \in {0, 1}
       /\ diff = 1 <=> write_sel = read_sel

\* The second block is completely written while the first is still being
\* emitted: the write side waits in INIT, one block ahead.
C19_Witness ==
    /\ sched_hist.wr_blk = 2
    /\ sched_hist.rd_blk = 1
    /\ write_sel = read_sel
    /\ write_fsm = "INIT"
    /\ read_fsm = "READ_OUTPUT"
    /\ read_count > 0

\* C20: after reset the write side starts first.  From the reset state the
\* write side enters WRITE_INPUT on the first clock edge.  Until the 64th
\* coefficient of the first block has been accepted the read side stays in
\* INIT with read_sel and read_count at their reset values, never reaching
\* READ_OUTPUT, the only state in which it drives source.valid; source.valid
\* is low in all these cycles.  (That source.valid is low in INIT rests on
\* source_valid_idle.)
C20_WriteStartsFirst ==
    /\ [](sched_hist.wr_blk = 0 =>
             /\ read_fsm = "INIT" /\ read_sel = 1 /\ read_count = 0
             /\ sched_hist.rd_blk = 0 /\ sched_hist.out_cnt = 0
             /\ ~source_valid(Regs))
    /\ [][(write_fsm = "INIT" /\ sched_hist.wr_blk = 0) =>
             write_fsm' = "WRITE_INPUT"]_vars

\* The last coefficient of the first block is about to be accepted after a
\* stall, and the read side has not moved.
C20_Witness ==
    /\ sched_hist.wr_blk = 0
    /\ write_fsm = "WRITE_INPUT"
    /\ write_count = BLOCK_COUNT - 1
    /\ sink_valid
    /\ stalls > 0
    /\ read_fsm = "INIT"
    /\ read_count = 0
====
